---- MODULE Spec2Model ----
(***************************************************************************)
(* Model of the hugglesfox/watch firmware.                                 *)
(*                                                                         *)
(*  - the RTIC application of src/src/main.rs: the tasks wakeup,           *)
(*    alarm_btn, beep and measure, the idle context, the interrupt         *)
(*    sources and the fixed-priority preemptive scheduling between them;   *)
(*  - the state-tagged peripheral drivers of src/hal/src (ADC, RTC,        *)
(*    buzzer): the handles, the registers they write and the history of    *)
(*    the operations invoked on them.                                      *)
(*                                                                         *)
(* Specifications:                                                         *)
(*   Spec      the application as built (measure is spawned nowhere)       *)
(*   FairSpec  Spec with the fairness of the processor, the RTC and the    *)
(*             SysTick timer                                               *)
(*   SpecM     Spec plus a caller of the generated measure::spawn()        *)
(*   SpecHal   the drivers, driven through their public operations         *)
(***************************************************************************)
EXTENDS Integers, Sequences, FiniteSets, TLC

VARIABLES
    \* ---- application: scheduler state
    stack,          \* contexts in progress, running one first, idle last
    idle_pc,        \* position of idle
    w_pc,           \* position of the wakeup handler
    w_time,         \* wakeup: the time read by rtc.now()
    w_res,          \* wakeup: outcome of beep::spawn() in this run
    a_pc,           \* position of the alarm_btn handler
    a_tmp,          \* alarm_btn: the value of buzzer_enabled it loaded
    beep_pc,        \* position of the beep instance holding the slot
    beep_n,         \* beep instances pending or active
    m_pc,           \* position of the measure task
    locked,         \* measure holds the (temperature, voltage) lock
    halted,         \* a panic was raised: the processor is in the fault handler
    \* ---- application: hardware and shared state
    rtc_irq,        \* RTC interrupt pending in the NVIC
    rtc_pr,         \* EXTI pending bit of line 20 (RTC wakeup)
    wutf,           \* RTC wakeup timer flag
    btn_irq,        \* EXTI2_3 interrupt pending in the NVIC
    btn_pr,         \* EXTI pending bit of line 2
    buzzer_enabled, \* Shared.buzzer_enabled
    buzzer_on,      \* the PWM channel of the buzzer is enabled
    beeped,         \* a beep instance has run to its end since boot
    temperature,    \* Shared.temperature: its value and the cycle that wrote it
    voltage,        \* Shared.voltage: its value and the cycle that wrote it
    \* ---- application: history
    err_logged,     \* the current wakeup run logged "unable to spawn beep"
    edge_in_delay,  \* a button edge arrived during beep's delay, not yet handled
    meas_seq,       \* measure cycles spawned so far
    vtemp_on,       \* the temperature sensor reference is enabled
    vref_on,        \* the internal voltage reference is enabled
    serviced,       \* alarm-button interrupts serviced so far
    used_by,        \* for each peripheral handle, the tasks that have used it
    \* ---- drivers of src/hal/src
    adc_handles,    \* tags of the Adc handles that can still be used
    adc_state,      \* tag of the Adc handle produced last
    aden,           \* ADC_CR.ADEN: the ADC is powered
    addis,          \* ADC_CR.ADDIS: a disable command is in progress
    calfact,        \* ADC_CALFACT
    conv_started,   \* the measure call in progress has started a conversion sequence
    cal_on_entry,   \* ADC_CALFACT when that call was entered
    cal_at_start,   \* ADC_CALFACT when its sequence was started
    bkp_at_start,   \* RTC_BKP0R when its sequence was started
    rtc_handles,    \* tags of the Rtc handles that can still be used
    rtc_state,      \* tag of the Rtc handle produced last
    rtc_initf,      \* RTC_ISR.INITF: the RTC is in initialisation mode
    tr,             \* RTC_TR, the time register
    rtc_secs,       \* seconds the RTC has counted
    hal_wutf,       \* RTC_ISR.WUTF as the driver sees it
    bkp0,           \* RTC_BKP0R, backup register 0
    time_set,       \* the Time given to set_time, until the calendar counts on
    stored,         \* the factor given to the last set_adc_calibration
    buz_handles,    \* tags of the Buzzer handles that can still be used
    buz_state,      \* tag of the Buzzer handle produced last
    cen,            \* TIM2_CR1.CEN: the buzzer timer counts
    tim_arr,        \* TIM2_ARR: the auto-reload value
    tim_ccr,        \* TIM2_CCR1: the compare value
    buz_arg,        \* the value passed to the buzzer setter called last
    last_op,        \* the driver operation invoked last, and the state it met
    \* ---- driver calls in progress and the flags they wait for
    adc_pc,         \* position of the ADC call in progress
    rtc_pc,         \* position of the RTC transition in progress
    rtc_init,       \* RTC_ISR.INIT: initialisation mode is requested
    adrdy,          \* ADC_ISR.ADRDY: the ADC has powered up
    primask,        \* interrupts are masked (PRIMASK)
    irq,            \* an interrupt is pending
    adstart,        \* ADC_CR.ADSTART: a conversion sequence is active
    eoc,            \* ADC_ISR.EOC: a sample waits in the data register
    dr,             \* ADC_DR: the sample converted last and its channel
    seq_n,          \* conversions the active sequence has completed
    samples,        \* the samples the measure call has read, in order
    irq_in_seq,     \* a handler ran between the start and the second read
    starts,         \* conversion starts made by the measure call
    adcal,          \* ADC_CR.ADCAL: a calibration is in progress
    eocal,          \* ADC_ISR.EOCAL: a calibration has completed
    cal_new,        \* the hardware produced a factor during this calibrate call
    \* ---- conversions and register values computed from closed formulas
    factory,        \* the factory calibration values of the device
    overflow_checks,\* the build panics on integer overflow (debug) or wraps
    conv            \* the computation made last: function, arguments, result

appVars == <<stack, idle_pc, w_pc, w_time, w_res, a_pc, a_tmp, beep_pc, beep_n,
             m_pc, locked, halted, rtc_irq, rtc_pr, wutf, btn_irq, btn_pr,
             buzzer_enabled, buzzer_on, beeped, temperature, voltage,
             err_logged, edge_in_delay, meas_seq, vtemp_on, vref_on, serviced,
             used_by>>

adcVars == <<adc_handles, adc_state, aden, addis, calfact, conv_started, cal_on_entry,
             cal_at_start, bkp_at_start>>
rtcVars == <<rtc_handles, rtc_state, rtc_initf, tr, rtc_secs, hal_wutf, bkp0,
             stored, time_set>>
buzVars == <<buz_handles, buz_state, cen, tim_arr, tim_ccr, buz_arg>>

halVars == <<adcVars, rtcVars, buzVars, last_op>>

calcVars == <<factory, overflow_checks, conv>>

cpuVars == <<primask, irq>>
measVars == <<adstart, eoc, dr, seq_n, samples, irq_in_seq, starts>>
calVars == <<adcal, eocal, cal_new>>
rtcStep == <<rtc_pc, rtc_init>>
stepVars == <<adc_pc, rtcStep, adrdy, cpuVars, measVars, calVars>>

vars == <<appVars, halVars, calcVars, stepVars>>

(***************************************************************************)
(* Bounds                                                                  *)
(***************************************************************************)
\* hours 0..MaxHour are sampled for the time the RTC returns
MaxHour == 1
\* measure cycles the caller of SpecM spawns
MaxCycles == 2
\* calibration factors 0..MaxCal are sampled
MaxCal == 1
\* alarm-button interrupts serviced before the button is left alone
MaxPress == 2
\* seconds the RTC of the driver model counts
MaxTicks == 2
\* the highest raw sample of the 12-bit ADC
MaxRaw == 4095
\* the widest gap sampled between the two temperature calibration points
MaxGap == 230

\* The times rtc.now() may return: every hour sampled, at the edges of the
\* minute and second ranges.
TimeSamples == {<<h, m, s>> : h \in 0..MaxHour, m \in {0, 59}, s \in {0, 59}}
NoTime == <<0, 0, 0>>

Hour(t) == t[1]
Minute(t) == t[2]
Second(t) == t[3]

(***************************************************************************)
(* Application: priorities and scheduling                                  *)
(***************************************************************************)
Tasks == {"wakeup", "alarm_btn", "beep", "measure"}

\* C10 mutant: the RTC handler is given a priority above the software tasks.
PrioWakeupAbove(t) ==
    CASE t = "idle" -> 0
      [] t = "wakeup" -> 3
      [] t = "alarm_btn" -> 1
      [] t \in {"beep", "measure"} -> 2

\* Task priorities: idle is 0, a task without a priority argument is 1.
Prio(t) ==
    CASE t = "idle" -> 0
      [] t \in {"wakeup", "alarm_btn"} -> 1
      [] t \in {"beep", "measure"} -> 2

\* Ceiling of temperature and voltage: the highest priority among their users.
Ceiling == Prio("measure")

Max2(a, b) == IF a >= b THEN a ELSE b

Top == Head(stack)

CurPrio == IF locked THEN Max2(Prio(Top), Ceiling) ELSE Prio(Top)

\* The task has a request the processor has not taken yet.
Pending(t) ==
    CASE t = "wakeup" -> rtc_irq
      [] t = "alarm_btn" -> btn_irq
      [] t = "beep" -> beep_pc \in {"spawned", "woken"}
      [] t = "measure" -> m_pc = "spawned"

Preempt == \E t \in Tasks : Pending(t) /\ Prio(t) > CurPrio

\* The processor takes t: it is pending, above the current priority, and no
\* pending task is above it.
CanTake(t) ==
    /\ ~halted
    /\ Pending(t)
    /\ Prio(t) > CurPrio
    /\ \A u \in Tasks : Pending(u) => Prio(u) <= Prio(t)

\* t executes its next instruction: it is the running context and nothing
\* preempts it.
Running(t) == ~halted /\ Top = t /\ ~Preempt

\* The processor is in Stop mode.
Asleep == idle_pc = "wfi" /\ Top = "idle"

\* Entering a handler: WFI retires when an interrupt is taken from it.
Push(t) ==
    /\ stack' = <<t>> \o stack
    /\ idle_pc' = IF Asleep THEN "woke" ELSE idle_pc

Pop == stack' = Tail(stack)

\* The peripheral handles of Local.
Peripherals == {"buzzer", "rtc", "adc"}

\* The local resources in the attribute of each task.
Local(t) ==
    CASE t = "wakeup" -> {"rtc"}
      [] t = "beep" -> {"buzzer"}
      [] t = "measure" -> {"adc"}
      [] t = "alarm_btn" -> {}

\* A statement of t operates on the handle p.
Use(t, p) == [used_by EXCEPT ![p] = @ \cup {t}]

\* A value of Shared.temperature or Shared.voltage, with the measure cycle
\* that wrote it (0: the Default of init).
Reading(cycle, value) == [cycle |-> cycle, value |-> value]

\* The handler or the body of t is in progress: running or preempted.
InProgress(t) == \E i \in 1..Len(stack) : stack[i] = t

wVars == <<w_pc, w_time, w_res, err_logged>>
aVars == <<a_pc, a_tmp, serviced>>
bVars == <<beep_pc, beep_n, buzzer_on, beeped>>
mVars == <<m_pc, locked, temperature, voltage, meas_seq, vtemp_on, vref_on>>
irqVars == <<rtc_irq, rtc_pr, wutf, btn_irq, btn_pr>>

(***************************************************************************)
(* Application: interrupt sources and the timer                            *)
(***************************************************************************)
\* The RTC wakeup timer elapses: it raises its flag, and the rising edge sets
\* the pending bit of EXTI line 20, through which the RTC interrupt is
\* requested.
RtcTick ==
    /\ ~halted
    /\ wutf' = TRUE
    /\ rtc_pr' = TRUE
    /\ rtc_irq' = TRUE
    /\ UNCHANGED <<calcVars, stepVars, used_by, stack, idle_pc, halted, buzzer_enabled, edge_in_delay,
                   btn_irq, btn_pr, wVars, aVars, bVars, mVars, halVars>>

\* A rising edge on the alarm button line (PA2).
ButtonEdge ==
    /\ ~halted
    /\ serviced < MaxPress
    /\ btn_pr' = TRUE
    /\ btn_irq' = TRUE
    /\ edge_in_delay' = (edge_in_delay \/ beep_pc = "delay")
    /\ UNCHANGED <<calcVars, stepVars, used_by, stack, idle_pc, halted, buzzer_enabled,
                   rtc_irq, rtc_pr, wutf, wVars, aVars, bVars, mVars, halVars>>

\* The SysTick monotonic reaches the instant beep waits for and wakes it. The
\* SysTick counter is stopped while the processor is in Stop mode.
TimerExpire ==
    /\ ~halted
    /\ ~Asleep
    /\ beep_pc = "delay"
    /\ beep_pc' = "woken"
    /\ UNCHANGED <<calcVars, stepVars, used_by, stack, idle_pc, halted, buzzer_enabled, edge_in_delay,
                   beep_n, buzzer_on, beeped, irqVars, wVars, aVars, mVars, halVars>>

(***************************************************************************)
(* Application: idle                                                       *)
(***************************************************************************)
\* idle configures Stop mode and executes WFI.
IdleEnter ==
    /\ Running("idle")
    /\ idle_pc = "enter"
    /\ idle_pc' = "wfi"
    /\ UNCHANGED <<calcVars, stepVars, used_by, stack, halted, buzzer_enabled, edge_in_delay,
                   irqVars, wVars, aVars, bVars, mVars, halVars>>

\* The handlers of the wake interrupt have returned: enter() returns, the lock
\* is released and idle reaches its final loop {}, which changes no state.
IdleResume ==
    /\ Running("idle")
    /\ idle_pc = "woke"
    /\ idle_pc' = "loop"
    /\ UNCHANGED <<calcVars, stepVars, used_by, stack, halted, buzzer_enabled, edge_in_delay,
                   irqVars, wVars, aVars, bVars, mVars, halVars>>

(***************************************************************************)
(* Application: wakeup                                                     *)
(***************************************************************************)
\* C4 mutant: the seconds are not compared.
TopOfHourAnySecond(flag, t) == flag /\ Minute(t) = 0

\* The condition under which wakeup requests beep.
TopOfHour(flag, t) == flag /\ Minute(t) = 0 /\ Second(t) = 0

\* C3 mutant: a request made while an instance exists is queued.
BeepSpawnQueued(n) == [ok |-> TRUE, n |-> n + 1]

\* beep::spawn(): Ok when the single slot of beep is free, Err(()) otherwise.
BeepSpawn(n) == IF n = 0 THEN [ok |-> TRUE, n |-> 1] ELSE [ok |-> FALSE, n |-> n]

\* The interrupt request of an EXTI line is its pending bit: a handler that
\* returns with the bit still set is requested again.
StillRequested(irq_bit, pr) == irq_bit \/ pr

WakeupStart ==
    /\ CanTake("wakeup")
    /\ Push("wakeup")
    /\ rtc_irq' = FALSE
    /\ w_pc' = "wait"
    /\ w_res' = "none"
    /\ err_logged' = FALSE
    /\ UNCHANGED <<calcVars, stepVars, used_by, halted, buzzer_enabled, edge_in_delay, w_time,
                   rtc_pr, wutf, btn_irq, btn_pr, aVars, bVars, mVars, halVars>>

\* C25 mutant: the result of wait() is dropped instead of unwrapped.
WakeupWaitUnchecked ==
    /\ Running("wakeup")
    /\ w_pc = "wait"
    /\ wutf' = FALSE
    /\ w_pc' = "now"
    /\ halted' = FALSE
    /\ used_by' = Use("wakeup", "rtc")
    /\ UNCHANGED <<calcVars, stepVars, stack, idle_pc, buzzer_enabled, edge_in_delay, w_time, w_res,
                   err_logged, rtc_irq, rtc_pr, btn_irq, btn_pr, aVars, bVars, mVars, halVars>>

\* rtc.wakeup_timer().wait().unwrap(): clears the flag, panics when it is clear.
WakeupWait ==
    /\ Running("wakeup")
    /\ w_pc = "wait"
    /\ IF wutf
         THEN /\ wutf' = FALSE
              /\ w_pc' = "now"
              /\ halted' = FALSE
         ELSE /\ halted' = TRUE
              /\ UNCHANGED <<wutf, w_pc>>
    /\ used_by' = Use("wakeup", "rtc")
    /\ UNCHANGED <<calcVars, stepVars, stack, idle_pc, buzzer_enabled, edge_in_delay, w_time, w_res,
                   err_logged, rtc_irq, rtc_pr, btn_irq, btn_pr, aVars, bVars, mVars, halVars>>

\* let time = rtc.now()
WakeupNow ==
    /\ Running("wakeup")
    /\ w_pc = "now"
    /\ \E t \in TimeSamples : w_time' = t
    /\ w_pc' = "cond"
    /\ used_by' = Use("wakeup", "rtc")
    /\ UNCHANGED <<calcVars, stepVars, stack, idle_pc, halted, buzzer_enabled, edge_in_delay, w_res,
                   err_logged, irqVars, aVars, bVars, mVars, halVars>>

\* The test of buzzer_enabled and the time, and the call of beep::spawn().
WakeupCond ==
    /\ Running("wakeup")
    /\ w_pc = "cond"
    /\ IF TopOfHour(buzzer_enabled, w_time)
         THEN LET r == BeepSpawn(beep_n) IN
              /\ beep_n' = r.n
              /\ beep_pc' = IF r.ok /\ beep_pc = "free" THEN "spawned" ELSE beep_pc
              /\ w_res' = IF r.ok THEN "ok" ELSE "err"
         ELSE UNCHANGED <<beep_n, beep_pc, w_res>>
    /\ w_pc' = "ret"
    /\ UNCHANGED <<calcVars, stepVars, used_by, stack, idle_pc, halted, buzzer_enabled, edge_in_delay, w_time,
                   err_logged, buzzer_on, beeped, irqVars, aVars, mVars, halVars>>

\* The error of a failed spawn is logged and the handler returns.  Nothing in
\* wakeup clears the pending bit of line 20.
WakeupRet ==
    /\ Running("wakeup")
    /\ w_pc = "ret"
    /\ err_logged' = (w_res = "err")
    /\ w_pc' = "off"
    /\ Pop
    /\ rtc_irq' = StillRequested(rtc_irq, rtc_pr)
    /\ UNCHANGED <<calcVars, stepVars, used_by, idle_pc, halted, buzzer_enabled, edge_in_delay, w_time, w_res,
                   rtc_pr, wutf, btn_irq, btn_pr, aVars, bVars, mVars, halVars>>

(***************************************************************************)
(* Application: alarm_btn                                                  *)
(***************************************************************************)
\* C11 mutant: the handler stores the value it loaded.
ToggleLost(b) == b

\* !*buzzer_enabled
Toggle(b) == ~b

AlarmStart ==
    /\ CanTake("alarm_btn")
    /\ Push("alarm_btn")
    /\ btn_irq' = FALSE
    /\ a_pc' = "unpend"
    /\ UNCHANGED <<calcVars, stepVars, used_by, halted, buzzer_enabled, edge_in_delay, a_tmp, serviced,
                   rtc_irq, rtc_pr, wutf, btn_pr, wVars, bVars, mVars, halVars>>

\* Exti::unpend(GpioLine::from_raw_line(2))
AlarmUnpend ==
    /\ Running("alarm_btn")
    /\ a_pc = "unpend"
    /\ btn_pr' = FALSE
    /\ a_pc' = "load"
    /\ UNCHANGED <<calcVars, stepVars, used_by, stack, idle_pc, halted, buzzer_enabled, edge_in_delay, a_tmp,
                   serviced, rtc_irq, rtc_pr, wutf, btn_irq, wVars, bVars, mVars, halVars>>

\* The load of *buzzer_enabled = !*buzzer_enabled
AlarmLoad ==
    /\ Running("alarm_btn")
    /\ a_pc = "load"
    /\ a_tmp' = buzzer_enabled
    /\ a_pc' = "store"
    /\ UNCHANGED <<calcVars, stepVars, used_by, stack, idle_pc, halted, buzzer_enabled, edge_in_delay, serviced,
                   irqVars, wVars, bVars, mVars, halVars>>

\* The store of *buzzer_enabled = !*buzzer_enabled, and the return.
AlarmStore ==
    /\ Running("alarm_btn")
    /\ a_pc = "store"
    /\ buzzer_enabled' = Toggle(a_tmp)
    /\ edge_in_delay' = FALSE
    /\ serviced' = serviced + 1
    /\ a_pc' = "off"
    /\ Pop
    /\ btn_irq' = StillRequested(btn_irq, btn_pr)
    /\ UNCHANGED <<calcVars, stepVars, used_by, idle_pc, halted, a_tmp, rtc_irq, rtc_pr, wutf, btn_pr,
                   wVars, bVars, mVars, halVars>>

(***************************************************************************)
(* Application: beep                                                       *)
(***************************************************************************)
\* The dispatcher polls the spawned instance for the first time.
BeepStart ==
    /\ CanTake("beep")
    /\ beep_pc = "spawned"
    /\ Push("beep")
    /\ beep_pc' = "enable"
    /\ UNCHANGED <<calcVars, stepVars, used_by, halted, buzzer_enabled, edge_in_delay, beep_n, buzzer_on,
                   beeped,
                   irqVars, wVars, aVars, mVars, halVars>>

\* buzzer.enable(); Systick::delay(1.secs()).await suspends the task.
BeepEnable ==
    /\ Running("beep")
    /\ beep_pc = "enable"
    /\ buzzer_on' = TRUE
    /\ beep_pc' = "delay"
    /\ Pop
    /\ used_by' = Use("beep", "buzzer")
    /\ UNCHANGED <<calcVars, stepVars, beeped, idle_pc, halted, buzzer_enabled, edge_in_delay, beep_n,
                   irqVars, wVars, aVars, mVars, halVars>>

\* The dispatcher polls the woken instance.
BeepResume ==
    /\ CanTake("beep")
    /\ beep_pc = "woken"
    /\ Push("beep")
    /\ beep_pc' = "disable"
    /\ UNCHANGED <<calcVars, stepVars, used_by, halted, buzzer_enabled, edge_in_delay, beep_n, buzzer_on,
                   beeped,
                   irqVars, wVars, aVars, mVars, halVars>>

\* C28 mutant: beep returns and its slot stays taken.
BeepKeepsSlot ==
    /\ Running("beep")
    /\ beep_pc = "disable"
    /\ buzzer_on' = FALSE
    /\ beeped' = TRUE
    /\ beep_n' = beep_n
    /\ beep_pc' = "free"
    /\ Pop
    /\ used_by' = Use("beep", "buzzer")
    /\ UNCHANGED <<calcVars, stepVars, idle_pc, halted, buzzer_enabled, edge_in_delay,
                   irqVars, wVars, aVars, mVars, halVars>>

\* C27 mutant: beep returns without disabling the buzzer.
BeepReturnsSounding ==
    /\ Running("beep")
    /\ beep_pc = "disable"
    /\ buzzer_on' = buzzer_on
    /\ beeped' = TRUE
    /\ beep_n' = beep_n - 1
    /\ beep_pc' = IF beep_n > 1 THEN "spawned" ELSE "free"
    /\ Pop
    /\ used_by' = Use("beep", "buzzer")
    /\ UNCHANGED <<calcVars, stepVars, idle_pc, halted, buzzer_enabled, edge_in_delay,
                   irqVars, wVars, aVars, mVars, halVars>>

\* buzzer.disable(); the task returns and its slot is released.
BeepDisable ==
    /\ Running("beep")
    /\ beep_pc = "disable"
    /\ buzzer_on' = FALSE
    /\ beeped' = TRUE
    /\ beep_n' = beep_n - 1
    /\ beep_pc' = IF beep_n > 1 THEN "spawned" ELSE "free"
    /\ Pop
    /\ used_by' = Use("beep", "buzzer")
    /\ UNCHANGED <<calcVars, stepVars, idle_pc, halted, buzzer_enabled, edge_in_delay,
                   irqVars, wVars, aVars, mVars, halVars>>

(***************************************************************************)
(* Application: initial state and specifications                           *)
(***************************************************************************)
\* The state init() returns: the wakeup timer is started, beep and measure
\* are not spawned, idle is about to run.
AppInit ==
    /\ stack = <<"idle">>
    /\ idle_pc = "enter"
    /\ w_pc = "off" /\ w_time = NoTime /\ w_res = "none" /\ err_logged = FALSE
    /\ a_pc = "off" /\ a_tmp = FALSE /\ serviced = 0
    /\ used_by = [p \in Peripherals |-> {}]
    /\ beep_pc = "free" /\ beep_n = 0 /\ buzzer_on = FALSE /\ beeped = FALSE
    /\ m_pc = "free" /\ locked = FALSE /\ temperature = Reading(0, 0) /\ voltage = Reading(0, 0)
    /\ meas_seq = 0 /\ vtemp_on = FALSE /\ vref_on = FALSE
    /\ halted = FALSE
    /\ rtc_irq = FALSE /\ rtc_pr = FALSE /\ wutf = FALSE
    /\ btn_irq = FALSE /\ btn_pr = FALSE
    /\ buzzer_enabled = TRUE
    /\ edge_in_delay = FALSE

\* What the processor executes.
CpuStep ==
    \/ IdleEnter \/ IdleResume
    \/ WakeupStart \/ WakeupWait \/ WakeupNow \/ WakeupCond \/ WakeupRet
    \/ AlarmStart \/ AlarmUnpend \/ AlarmLoad \/ AlarmStore
    \/ BeepStart \/ BeepEnable \/ BeepResume \/ BeepDisable

(***************************************************************************)
(* Drivers: handles                                                        *)
(***************************************************************************)
\* The times set_time is given: the first and the last second of every hour
\* sampled.
HalTimes == {<<h, ms[1], ms[2]>> : h \in 0..MaxHour, ms \in {<<0, 0>>, <<59, 59>>}}

\* The value of RTC_TR at h:m:s: its six digit fields HT, HU, MNT, MNU, ST, SU.
Tr(h, m, s) == <<h \div 10, h % 10, m \div 10, m % 10, s \div 10, s % 10>>

\* C1 mutant: the transition borrows the handle instead of taking it.
TakeKept(handles, old) == handles

\* A transition takes its handle by value (self).
Take(handles, old) == handles \ {old}

\* A transition that waits for nothing takes its handle and returns the next
\* one in one step.
Consume(handles, old, new) == Take(handles, old) \cup {new}

\* No driver call is in progress: the caller is free to make one.
Idle == adc_pc = "idle" /\ rtc_pc = "idle"

\* The Time struct: the binary coded decimal digits of the time.
Time(ht, hu, mnt, mnu, st, su) ==
    [hour_tens |-> ht, hour_units |-> hu, minute_tens |-> mnt,
     minute_units |-> mnu, seconds_tens |-> st, seconds_units |-> su]

NoDigits == Time(0, 0, 0, 0, 0, 0)

\* No AdcMeasurement.
NoMeasurement == [vrefint |-> 0, tsense |-> 0]

\* A record of a driver operation: its name, the state of the handle it was
\* invoked on, the register reads it made (Rtc::time: RTC_TR, Adc::measure:
\* ADC_DR), the Time that Rtc::time returned and the AdcMeasurement that
\* Adc::measure returned.
Op(name, cur) ==
    [op |-> name, cur |-> cur, reads |-> <<>>, time |-> NoDigits, meas |-> NoMeasurement]

(***************************************************************************)
(* Drivers: ADC                                                            *)
(***************************************************************************)
\* Values of a u8.
U8 == 256

\* Values of a u16.
U16 == 65536

\* The calibration factors sampled: the low ones and the highest value of the
\* 7-bit CALFACT field.
CalSamples == (0..MaxCal) \cup {(U8 \div 2) - 1}

\* The values given to set_adc_calibration: those and the highest u8.
BkpSamples == CalSamples \cup {U8 - 1}

\* Rtc::set_adc_calibration: the factor is written to backup register 0.
SetAdcCalibration(calibration) == calibration

\* C14 mutant: only the low seven bits of the register are returned.
GetAdcCalibrationLow(bkp) == bkp % (U8 \div 2)

\* Rtc::get_adc_calibration: backup register 0, cast to u8.
GetAdcCalibration(bkp) == bkp % U8

\* C2 mutant: the calibration register is left as it is.
ApplyCalibrationSkipped(cal, bkp) == cal

\* apply_calibration: CALFACT is written with rtc.get_adc_calibration(); the
\* field has seven bits.
ApplyCalibration(cal, bkp) == GetAdcCalibration(bkp) % (U8 \div 2)

\* Adc<Disabled>::enable, From<Adc<Disabled>> for Adc<Enabled>: the handle is
\* taken and ADEN is set.  ADDIS is not touched.
AdcEnableStart ==
    /\ Idle
    /\ "Disabled" \in adc_handles
    /\ adc_handles' = Take(adc_handles, "Disabled")
    /\ aden' = TRUE
    /\ adc_pc' = "e_adrdy"
    /\ UNCHANGED <<calcVars, appVars, rtcStep, adrdy, rtcVars, buzVars, last_op, cpuVars,
                   measVars, calVars, adc_state, addis, calfact, conv_started,
                   cal_on_entry, cal_at_start, bkp_at_start>>

\* The ADC, asked to power up, sets ADRDY when it is powered.
AdcReady ==
    /\ adc_pc = "e_adrdy"
    /\ aden
    /\ ~adrdy
    /\ adrdy' = TRUE
    /\ UNCHANGED <<calcVars, appVars, rtcStep, halVars, adc_pc, cpuVars, measVars, calVars>>

\* The enable transition leaves its loop on ADRDY, clears the flag and returns
\* the Enabled handle.
AdcEnableReturn ==
    /\ adc_pc = "e_adrdy"
    /\ adrdy
    /\ adrdy' = FALSE
    /\ adc_handles' = adc_handles \cup {"Enabled"}
    /\ adc_state' = "Enabled"
    /\ last_op' = Op("adc.enable", adc_state)
    /\ adc_pc' = "idle"
    /\ UNCHANGED <<calcVars, appVars, rtcStep, rtcVars, buzVars, cpuVars, measVars, calVars,
                   aden, addis, calfact, conv_started, cal_on_entry, cal_at_start,
                   bkp_at_start>>

\* Adc<Enabled>::disable, From<Adc<Enabled>> for Adc<Disabled>: ADDIS is set
\* and the handle is returned; no flag is read.
AdcDisable ==
    /\ Idle
    /\ "Enabled" \in adc_handles
    /\ adc_handles' = Consume(adc_handles, "Enabled", "Disabled")
    /\ adc_state' = "Disabled"
    /\ addis' = TRUE
    /\ last_op' = Op("adc.disable", adc_state)
    /\ UNCHANGED <<calcVars, stepVars, aden, calfact, conv_started, cal_on_entry, cal_at_start,
                   bkp_at_start, rtcVars, buzVars, appVars>>

\* The ADC completes the disable command: the hardware clears ADEN and ADDIS.
\* Powering down an ADC that is on may lose the factor its calibration
\* register holds.
AdcPoweredDown ==
    /\ addis
    /\ aden' = FALSE
    /\ addis' = FALSE
    /\ calfact' \in IF aden THEN {calfact, 0} ELSE {calfact}
    /\ UNCHANGED <<calcVars, stepVars, adc_handles, adc_state, conv_started, cal_on_entry,
                   cal_at_start, bkp_at_start, last_op, rtcVars, buzVars, appVars>>

(***************************************************************************)
(* Drivers: ADC calibrate and measure                                      *)
(***************************************************************************)
\* The two calls are followed statement by statement, with the ADC setting and
\* clearing its flags in between; a call in progress holds the handle, so no
\* other driver operation starts before it returns.
\* The samples a conversion may produce.
AdcSamples == {1, 2}

\* The channels selected by Adc::configure, in the order they are scanned:
\* 17 is VREFINT, 18 is the temperature sensor.
Channels == <<17, 18>>

NoSample == [ch |-> 0, val |-> 0]

\* C21 mutant: the conversion is started and read with interrupts enabled.
InterruptsLeftEnabled == FALSE

\* cortex_m::interrupt::free: the closure runs with interrupts masked.
InterruptFree == TRUE

\* An interrupt request is raised.
IrqRaise ==
    /\ ~irq
    /\ irq' = TRUE
    /\ UNCHANGED <<calcVars, appVars, rtcStep, adrdy, halVars, adc_pc, primask, measVars, calVars>>

\* A pending interrupt is taken unless interrupts are masked; its handler runs
\* to completion.  The handler has no access to the ADC, which the call in
\* progress borrows exclusively.
IrqHandler ==
    /\ irq
    /\ ~primask
    /\ irq' = FALSE
    /\ irq_in_seq' = (irq_in_seq \/ adc_pc \in {"m_read1", "m_read2"})
    /\ UNCHANGED <<calcVars, appVars, rtcStep, adrdy, halVars, adc_pc, primask, calVars,
                   adstart, eoc, dr, seq_n, samples, starts>>

\* Adc<Enabled>::measure, first statement: apply_calibration.
AdcMeasApply ==
    /\ Idle
    /\ "Enabled" \in adc_handles
    /\ rtc_handles # {}
    /\ calfact' = ApplyCalibration(calfact, bkp0)
    /\ cal_on_entry' = calfact
    /\ samples' = <<>>
    /\ irq_in_seq' = FALSE
    /\ starts' = 0
    /\ adc_pc' = "m_start"
    /\ UNCHANGED <<calcVars, appVars, rtcStep, adrdy, rtcVars, buzVars, last_op, cpuVars, calVars,
                   adc_handles, adc_state, aden, addis, conv_started, cal_at_start,
                   bkp_at_start, adstart, eoc, dr, seq_n>>

\* measure enters interrupt::free and sets ADSTART.  An ADC that is powered
\* starts a conversion sequence.
AdcMeasStart ==
    /\ adc_pc = "m_start"
    /\ primask' = InterruptFree
    /\ adstart' = TRUE
    /\ seq_n' = 0
    /\ starts' = starts + 1
    /\ IF aden
         THEN /\ conv_started' = TRUE
              /\ cal_at_start' = calfact
              /\ bkp_at_start' = bkp0
         ELSE UNCHANGED <<conv_started, cal_at_start, bkp_at_start>>
    /\ adc_pc' = "m_read1"
    /\ UNCHANGED <<calcVars, appVars, rtcStep, adrdy, rtcVars, buzVars, last_op, irq, calVars,
                   adc_handles, adc_state, aden, addis, calfact, cal_on_entry,
                   eoc, dr, samples, irq_in_seq>>

\* The ADC completes the next conversion of the sequence: the sample is put in
\* the data register and EOC is set; after the last channel ADSTART is cleared.
\* A sample is read well within the time the next conversion takes.  An ADC
\* that is off converts nothing.
AdcConvert ==
    /\ adstart
    /\ aden
    /\ ~eoc
    /\ \E v \in AdcSamples : dr' = [ch |-> Channels[seq_n + 1], val |-> v]
    /\ eoc' = TRUE
    /\ seq_n' = seq_n + 1
    /\ adstart' = (seq_n + 1 < Len(Channels))
    /\ UNCHANGED <<calcVars, appVars, rtcStep, adrdy, halVars, adc_pc, cpuVars, calVars,
                   samples, irq_in_seq, starts>>

\* Adc::read, called for vrefint: spins until EOC is set, then reads the data
\* register, which clears EOC.
AdcMeasRead1 ==
    /\ adc_pc = "m_read1"
    /\ eoc
    /\ samples' = Append(samples, dr)
    /\ eoc' = FALSE
    /\ adc_pc' = "m_read2"
    /\ UNCHANGED <<calcVars, appVars, rtcStep, adrdy, halVars, cpuVars, calVars,
                   adstart, dr, seq_n, irq_in_seq, starts>>

\* Adc::read, called for tsense; the closure ends and interrupt::free restores
\* the interrupt mask.
AdcMeasRead2 ==
    /\ adc_pc = "m_read2"
    /\ eoc
    /\ samples' = Append(samples, dr)
    /\ eoc' = FALSE
    /\ primask' = FALSE
    /\ adc_pc' = "m_wait"
    /\ UNCHANGED <<calcVars, appVars, rtcStep, adrdy, halVars, irq, calVars,
                   adstart, dr, seq_n, irq_in_seq, starts>>

\* measure spins while ADSTART is active, then returns
\* AdcMeasurement { vrefint, tsense }; what the call kept of its run ends with it.
AdcMeasReturn ==
    /\ adc_pc = "m_wait"
    /\ ~adstart
    /\ last_op' = [Op("adc.measure", adc_state) EXCEPT
                      !.reads = samples,
                      !.meas = [vrefint |-> samples[1].val, tsense |-> samples[2].val]]
    /\ samples' = <<>>
    /\ starts' = 0
    /\ conv_started' = FALSE
    /\ cal_on_entry' = 0
    /\ cal_at_start' = 0
    /\ bkp_at_start' = 0
    /\ adc_pc' = "idle"
    /\ UNCHANGED <<calcVars, appVars, rtcStep, adrdy, rtcVars, buzVars, cpuVars, calVars,
                   adc_handles, adc_state, aden, addis, calfact,
                   adstart, eoc, dr, seq_n, irq_in_seq>>

\* C24 mutant: the wait for EOCAL gives up.
EocalWaitTimesOut(flag) == TRUE

\* while eocal().is_not_complete() {}
EocalComplete(flag) == flag

\* C23 mutant: calibrate returns without waiting for ADCAL.
AdcalNotAwaited(bit) == TRUE

\* while adcal().is_calibrating() {}
AdcalFinished(bit) == ~bit

\* Adc<Disabled>::calibrate, first statement: ADCAL is set.
AdcCalStart ==
    /\ Idle
    /\ "Disabled" \in adc_handles
    /\ rtc_handles # {}
    /\ adcal' = TRUE
    /\ cal_new' = FALSE
    /\ adc_pc' = "c_eocal"
    /\ UNCHANGED <<calcVars, appVars, rtcStep, adrdy, halVars, cpuVars, measVars, eocal>>

\* The ADC, once it is powered down, completes the calibration: the factor is
\* put in the calibration register and EOCAL is set.
AdcCalComplete ==
    /\ adcal
    /\ ~cal_new
    /\ ~aden
    /\ \E f \in CalSamples : calfact' = f
    /\ eocal' = TRUE
    /\ cal_new' = TRUE
    /\ UNCHANGED <<calcVars, appVars, rtcStep, adrdy, rtcVars, buzVars, last_op, adc_pc, cpuVars, measVars,
                   adc_handles, adc_state, aden, addis, conv_started, cal_on_entry,
                   cal_at_start, bkp_at_start, adcal>>

\* The ADC clears ADCAL when the calibration has completed.
AdcCalFinish ==
    /\ adcal
    /\ cal_new
    /\ adcal' = FALSE
    /\ UNCHANGED <<calcVars, appVars, rtcStep, adrdy, halVars, adc_pc, cpuVars, measVars, eocal, cal_new>>

\* calibrate leaves its first loop and clears EOCAL.
AdcCalSeen ==
    /\ adc_pc = "c_eocal"
    /\ EocalComplete(eocal)
    /\ eocal' = FALSE
    /\ adc_pc' = "c_store"
    /\ UNCHANGED <<calcVars, appVars, rtcStep, adrdy, halVars, cpuVars, measVars, adcal, cal_new>>

\* calibrate reads CALFACT and hands it to rtc.set_adc_calibration.
AdcCalStore ==
    /\ adc_pc = "c_store"
    /\ bkp0' = SetAdcCalibration(calfact)
    /\ stored' = calfact
    /\ adc_pc' = "c_adcal"
    /\ UNCHANGED <<calcVars, appVars, rtcStep, adrdy, adcVars, buzVars, last_op, cpuVars,
                   measVars, calVars, rtc_handles, rtc_state, rtc_initf, tr, rtc_secs,
                   hal_wutf, time_set>>

\* calibrate leaves its second loop and returns.
AdcCalReturn ==
    /\ adc_pc = "c_adcal"
    /\ AdcalFinished(adcal)
    /\ last_op' = Op("adc.calibrate", adc_state)
    /\ adc_pc' = "idle"
    /\ UNCHANGED <<calcVars, appVars, rtcStep, adrdy, adcVars, rtcVars, buzVars, cpuVars, measVars, calVars>>

\* No call is in progress, interrupts are enabled, the ADC is at rest.
AdcStepInit ==
    /\ adc_pc = "idle"
    /\ rtc_pc = "idle"
    /\ rtc_init = FALSE
    /\ adrdy = FALSE
    /\ primask = FALSE
    /\ irq = FALSE
    /\ adstart = FALSE
    /\ eoc = FALSE
    /\ dr = NoSample
    /\ seq_n = 0
    /\ samples = <<>>
    /\ irq_in_seq = FALSE
    /\ starts = 0
    /\ adcal = FALSE
    /\ eocal = FALSE
    /\ cal_new = FALSE

(***************************************************************************)
(* Drivers: RTC                                                            *)
(***************************************************************************)
\* Rtc<Run>::init, From<Rtc<Run>> for Rtc<Init>: the handle is taken and INIT
\* is set.
RtcInitStart ==
    /\ Idle
    /\ "Run" \in rtc_handles
    /\ rtc_handles' = Take(rtc_handles, "Run")
    /\ rtc_init' = TRUE
    /\ rtc_pc' = "i_initf"
    /\ UNCHANGED <<calcVars, appVars, adcVars, buzVars, last_op, adc_pc, adrdy, cpuVars,
                   measVars, calVars, rtc_state, rtc_initf, tr, rtc_secs, hal_wutf, bkp0,
                   stored, time_set>>

\* The RTC enters initialisation mode: INITF is set and the calendar stops.
RtcInitfSet ==
    /\ rtc_init
    /\ ~rtc_initf
    /\ rtc_initf' = TRUE
    /\ UNCHANGED <<calcVars, appVars, stepVars, adcVars, buzVars, last_op, rtc_handles,
                   rtc_state, tr, rtc_secs, hal_wutf, bkp0, stored, time_set>>

\* The transition leaves its loop on INITF and returns the Init handle.
RtcInitReturn ==
    /\ rtc_pc = "i_initf"
    /\ rtc_initf
    /\ rtc_handles' = rtc_handles \cup {"Init"}
    /\ rtc_state' = "Init"
    /\ last_op' = Op("rtc.init", rtc_state)
    /\ rtc_pc' = "idle"
    /\ UNCHANGED <<calcVars, appVars, adcVars, buzVars, adc_pc, rtc_init, adrdy, cpuVars,
                   measVars, calVars, rtc_initf, tr, rtc_secs, hal_wutf, bkp0, stored,
                   time_set>>

\* Rtc<Init>::run, From<Rtc<Init>> for Rtc<Run>: the handle is taken and INIT
\* is cleared.
RtcRunStart ==
    /\ Idle
    /\ "Init" \in rtc_handles
    /\ rtc_handles' = Take(rtc_handles, "Init")
    /\ rtc_init' = FALSE
    /\ rtc_pc' = "r_initf"
    /\ UNCHANGED <<calcVars, appVars, adcVars, buzVars, last_op, adc_pc, adrdy, cpuVars,
                   measVars, calVars, rtc_state, rtc_initf, tr, rtc_secs, hal_wutf, bkp0,
                   stored, time_set>>

\* The RTC leaves initialisation mode: INITF is cleared and the calendar runs.
RtcInitfClear ==
    /\ ~rtc_init
    /\ rtc_initf
    /\ rtc_initf' = FALSE
    /\ UNCHANGED <<calcVars, appVars, stepVars, adcVars, buzVars, last_op, rtc_handles,
                   rtc_state, tr, rtc_secs, hal_wutf, bkp0, stored, time_set>>

\* The transition leaves its loop when INITF reads clear and returns the Run
\* handle.
RtcRunReturn ==
    /\ rtc_pc = "r_initf"
    /\ ~rtc_initf
    /\ rtc_handles' = rtc_handles \cup {"Run"}
    /\ rtc_state' = "Run"
    /\ last_op' = Op("rtc.run", rtc_state)
    /\ rtc_pc' = "idle"
    /\ UNCHANGED <<calcVars, appVars, adcVars, buzVars, adc_pc, rtc_init, adrdy, cpuVars,
                   measVars, calVars, rtc_initf, tr, rtc_secs, hal_wutf, bkp0, stored,
                   time_set>>

\* Rtc<S>::set_adc_calibration, called from within the crate with any u8.
RtcSetAdcCalibration ==
    /\ Idle
    /\ rtc_handles # {}
    /\ \E f \in BkpSamples :
          /\ bkp0' = SetAdcCalibration(f)
          /\ stored' = f
    /\ last_op' = Op("rtc.set_adc_calibration", rtc_state)
    /\ UNCHANGED <<calcVars, appVars, stepVars, adcVars, buzVars, rtc_handles, rtc_state,
                   rtc_initf, tr, rtc_secs, hal_wutf, time_set>>

\* The digit fields of a value of RTC_TR.
Ht(r) == r[1]
Hu(r) == r[2]
Mnt(r) == r[3]
Mnu(r) == r[4]
St(r) == r[5]
Su(r) == r[6]

\* The calendar counts one second, in 24 hour notation.
TickTr(r) ==
    LET h == 10 * Ht(r) + Hu(r)
        m == 10 * Mnt(r) + Mnu(r)
        s == 10 * St(r) + Su(r)
    IN  IF s < 59 THEN Tr(h, m, s + 1)
        ELSE IF m < 59 THEN Tr(h, m + 1, 0)
        ELSE Tr((h + 1) % 24, 0, 0)

\* The Time of a value of RTC_TR.
TimeOf(r) == Time(Ht(r), Hu(r), Mnt(r), Mnu(r), St(r), Su(r))

\* The times given to set_time: those sampled, and the last second of the day.
SetTimeArgs == {TimeOf(Tr(t[1], t[2], t[3])) : t \in HalTimes \cup {<<23, 59, 59>>}}

NoTimeSet == [set |-> FALSE, time |-> NoDigits]

\* C30 mutant: only the units digits are written.
WriteTrUnits(time) ==
    <<0, time.hour_units % 16, 0, time.minute_units % 16, 0, time.seconds_units % 16>>

\* tr.write(|w| w.ht().bits(..).hu().bits(..) ...): each digit is written to
\* its field of RTC_TR, whose width cuts it (HT 2 bits, MNT and ST 3, the
\* units 4).
WriteTr(time) ==
    <<time.hour_tens % 4, time.hour_units % 16,
      time.minute_tens % 8, time.minute_units % 16,
      time.seconds_tens % 8, time.seconds_units % 16>>

\* Rtc<Init>::set_time
RtcSetTime ==
    /\ Idle
    /\ "Init" \in rtc_handles
    /\ \E t \in SetTimeArgs :
          /\ tr' = WriteTr(t)
          /\ time_set' = [set |-> TRUE, time |-> t]
    /\ last_op' = Op("rtc.set_time", rtc_state)
    /\ UNCHANGED <<calcVars, stepVars, rtc_handles, rtc_state, rtc_initf, rtc_secs, hal_wutf, bkp0,
                   stored, adcVars, buzVars, appVars>>

\* C13 mutant: the second read is returned whatever the first was.
ReadTrSecond(reads) == [tr |-> reads[2], n |-> 2]

\* Rtc<Run>::read_tr, given the values the register yields at successive
\* reads: the value returned and the number of reads made.
ReadTr(reads) ==
    IF Su(reads[1]) # Su(reads[2])
      THEN [tr |-> reads[3], n |-> 3]
      ELSE [tr |-> reads[2], n |-> 2]

\* Rtc<Run>::time. The calendar may count a second between two reads.
RtcTime ==
    /\ Idle
    /\ "Run" \in rtc_handles
    /\ \E r2 \in {tr, TickTr(tr)} :
         \E r3 \in {r2, TickTr(r2)} :
            LET res == ReadTr(<<tr, r2, r3>>)
                cur == IF res.n = 3 THEN r3 ELSE r2
                secs == rtc_secs + (IF r2 # tr THEN 1 ELSE 0)
                                 + (IF res.n = 3 /\ r3 # r2 THEN 1 ELSE 0)
            IN  /\ secs <= MaxTicks
                /\ tr' = cur
                /\ rtc_secs' = secs
                /\ time_set' = IF secs = rtc_secs THEN time_set ELSE NoTimeSet
                /\ last_op' = [Op("rtc.time", rtc_state) EXCEPT
                                  !.reads = SubSeq(<<tr, r2, r3>>, 1, res.n),
                                  !.time = TimeOf(res.tr)]
    /\ UNCHANGED <<calcVars, stepVars, rtc_handles, rtc_state, rtc_initf, hal_wutf, bkp0, stored,
                   adcVars, buzVars, appVars>>

\* The calendar counts a second; it is stopped in initialisation mode.
HalSecond ==
    /\ ~rtc_initf
    /\ rtc_secs < MaxTicks
    /\ tr' = TickTr(tr)
    /\ rtc_secs' = rtc_secs + 1
    /\ time_set' = NoTimeSet
    /\ UNCHANGED <<calcVars, stepVars, rtc_handles, rtc_state, rtc_initf, hal_wutf, bkp0, stored,
                   last_op, adcVars, buzVars, appVars>>

\* Rtc<Run>::isr_wakeup: the flag is read, and cleared when it is set.
RtcIsrWakeup ==
    /\ Idle
    /\ "Run" \in rtc_handles
    /\ hal_wutf' = FALSE
    /\ last_op' = Op("rtc.isr_wakeup", rtc_state)
    /\ UNCHANGED <<time_set, calcVars, stepVars, rtc_handles, rtc_state, rtc_initf, tr, rtc_secs, bkp0, stored,
                   adcVars, buzVars, appVars>>

\* The wakeup timer enabled by Rtc::configure elapses.
HalWakeupElapsed ==
    /\ ~hal_wutf
    /\ hal_wutf' = TRUE
    /\ UNCHANGED <<time_set, calcVars, stepVars, rtc_handles, rtc_state, rtc_initf, tr, rtc_secs, bkp0, stored,
                   last_op, adcVars, buzVars, appVars>>

\* The processor goes through a Stop mode cycle (WFI with SLEEPDEEP set). The
\* ADC clock is off in Stop mode and the factor in the calibration register
\* of the ADC may be lost; the backup domain of the RTC stays powered.
HalStopCycle ==
    /\ Idle
    /\ calfact' \in {calfact, 0}
    /\ last_op' = Op("system.stop", "none")
    /\ UNCHANGED <<calcVars, stepVars, adc_handles, adc_state, aden, addis, conv_started, cal_on_entry,
                   cal_at_start, bkp_at_start, rtcVars, buzVars, appVars>>

(***************************************************************************)
(* Drivers: buzzer                                                         *)
(***************************************************************************)
\* Buzzer<Stopped>::start, From<Buzzer<Stopped>> for Buzzer<Running>
BuzzerStart ==
    /\ Idle
    /\ "Stopped" \in buz_handles
    /\ buz_handles' = Consume(buz_handles, "Stopped", "Running")
    /\ buz_state' = "Running"
    /\ cen' = TRUE
    /\ last_op' = Op("buzzer.start", buz_state)
    /\ UNCHANGED <<calcVars, stepVars, tim_arr, tim_ccr, buz_arg, adcVars, rtcVars, appVars>>

\* Buzzer<Running>::stop, From<Buzzer<Running>> for Buzzer<Stopped>
BuzzerStop ==
    /\ Idle
    /\ "Running" \in buz_handles
    /\ buz_handles' = Consume(buz_handles, "Running", "Stopped")
    /\ buz_state' = "Stopped"
    /\ cen' = FALSE
    /\ last_op' = Op("buzzer.stop", buz_state)
    /\ UNCHANGED <<calcVars, stepVars, tim_arr, tim_ccr, buz_arg, adcVars, rtcVars, appVars>>

\* The values the setters are given.
CcrSamples == {0, 1, 327, 655}

\* Buzzer<S>::arr: the argument is written to the auto-reload register.
BuzzerArr ==
    /\ Idle
    /\ buz_handles # {}
    /\ \E v \in CcrSamples \cup {656, U16 - 1} :
          /\ tim_arr' = v
          /\ buz_arg' = v
    /\ last_op' = Op("buzzer.arr", buz_state)
    /\ UNCHANGED <<calcVars, stepVars, buz_handles, buz_state, cen, tim_ccr, adcVars, rtcVars,
                   appVars>>

\* Buzzer<S>::ccr: the argument is written to the auto-reload register.
BuzzerCcr ==
    /\ Idle
    /\ buz_handles # {}
    /\ \E v \in CcrSamples :
          /\ tim_arr' = v
          /\ buz_arg' = v
    /\ last_op' = Op("buzzer.ccr", buz_state)
    /\ UNCHANGED <<calcVars, stepVars, buz_handles, buz_state, cen, tim_ccr, adcVars, rtcVars,
                   appVars>>

\* The state the configure functions return: one handle for each driver, the
\* ADC off with its calibration register at the reset value, the RTC running,
\* the timer stopped. The backup register keeps what it held before the reset.
HalInit ==
    /\ adc_handles = {"Disabled"} /\ adc_state = "Disabled"
    /\ aden = FALSE /\ addis = FALSE /\ calfact = 0
    /\ conv_started = FALSE /\ cal_on_entry = 0 /\ cal_at_start = 0
    /\ bkp_at_start = 0
    /\ rtc_handles = {"Run"} /\ rtc_state = "Run"
    /\ time_set = NoTimeSet
    /\ rtc_initf = FALSE /\ tr = Tr(0, 0, 0) /\ rtc_secs = 0 /\ hal_wutf = FALSE
    /\ bkp0 \in CalSamples
    /\ stored = GetAdcCalibration(bkp0)
    /\ buz_handles = {"Stopped"} /\ buz_state = "Stopped" /\ cen = FALSE
    /\ tim_arr = U16 - 1 /\ tim_ccr = 0 /\ buz_arg = 0
    /\ last_op = Op("configure", "none")

(***************************************************************************)
(* Conversions: integer arithmetic                                         *)
(***************************************************************************)
\* The result of a computation: a panic, or a 32-bit value given by its two
\* 16-bit halves (a u16 result has hi = 0).
Word(hi, lo) == [panic |-> FALSE, hi |-> hi, lo |-> lo]
Panicked == [panic |-> TRUE, hi |-> 0, lo |-> 0]

\* The value v, 0 <= v < 2^31.
Val(v) == Word(v \div U16, v % U16)

\* hi * 2^16 + lo wrapped to 32 bits, for halves of either sign.
Wrap32(hi, lo) == Word((hi + (lo \div U16)) % U16, lo % U16)

\* A u16 operation with the exact result v panics: v is not a u16 and overflow
\* is checked. Otherwise its result is v % U16.
Overflows(v, checks) == checks /\ (v < 0 \/ v >= U16)

(***************************************************************************)
(* Conversions: src/hal/src/adc.rs                                         *)
(***************************************************************************)
VREFINT_CAL_VREF == 3000
TS_CAL1_TEMP == 30
\* The address of the first temperature calibration point, 0x1FF8007A.
TS_CAL1 == 536346746
TS_CAL2_TEMP == 130

\* VREFINT_VREF_BY_CAL
VREFINT_VREF_BY_CAL(f) == VREFINT_CAL_VREF * f.vrefint_cal

\* TS_GRADIENT, for calibration points with ts_cal1 < ts_cal2.
TS_GRADIENT(f) == (TS_CAL2_TEMP - TS_CAL1_TEMP) \div (f.ts_cal2 - f.ts_cal1)

\* AdcMeasurement::voltage
Voltage(vrefint, f) ==
    IF vrefint = 0 THEN Panicked ELSE Val(VREFINT_VREF_BY_CAL(f) \div vrefint)

\* AdcMeasurement::temperature. The subtrahend is TS_CAL1 as usize, the address
\* of the calibration point: the usize subtraction (32 bits on the Cortex-M0+)
\* overflows for every sample.
Temperature(tsense, f, checks) ==
    IF tsense < TS_CAL1 /\ checks THEN Panicked
    ELSE LET diff == Wrap32(0 - (TS_CAL1 \div U16), tsense - (TS_CAL1 % U16))
             prod == Wrap32(TS_GRADIENT(f) * diff.hi, TS_GRADIENT(f) * diff.lo)
         IN  Wrap32(prod.hi, prod.lo + TS_CAL1_TEMP)

(***************************************************************************)
(* Conversions: src/src/measurement.rs                                     *)
(***************************************************************************)
\* impl From<u16> for Temperature, in u16 arithmetic.
TemperatureFrom(raw, f, checks) ==
    LET cal_gradient == (130 - 30) \div (f.ts_cal2 - f.ts_cal1)
        diff == raw - f.ts_cal1
        prod == cal_gradient * (diff % U16)
        sum == (prod % U16) + 30
    IN  IF Overflows(diff, checks) \/ Overflows(prod, checks) \/ Overflows(sum, checks)
          THEN Panicked
          ELSE Val(sum % U16)

\* impl From<u16> for Voltage, in u16 arithmetic.
VoltageFrom(raw, f, checks) ==
    LET prod == 3 * f.vrefint_cal
    IN  IF Overflows(prod, checks) \/ raw = 0
          THEN Panicked
          ELSE Val((prod % U16) \div raw)

(***************************************************************************)
(* Conversions: src/hal/src/buzzer.rs                                      *)
(***************************************************************************)
CLK_FREQ == 65536

PRESCALER == (CLK_FREQ - 1) % U16

\* a * b in usize (32 bits), for 0 <= a < 2^31 and 0 < b <= 2^16: the halves
\* of the wrapped product, and whether the exact product is not a usize.
MulUsize(a, b) ==
    LET ah == a \div U16
        al == a % U16
        bh == b \div U16
        bl == b % U16
        x == al * (bl \div U8)
        lo == al * (bl % U8) + (x % U8) * U8
        t == ah * bl
        hi == (t % U16) + (x \div U8) + al * bh + (lo \div U16)
    IN  [hi |-> hi % U16, lo |-> lo % U16,
         ovf |-> (ah * bh > 0) \/ (t \div U16) + (hi \div U16) > 0]

\* arr_from_frequency: usize arithmetic, then the cast to u16.  A product that
\* is not a usize panics or wraps, a divisor of 0 panics, and so does the
\* subtraction from a quotient of 0 when overflow is checked.
arr_from_frequency(freq, checks) ==
    LET p == MulUsize(freq, PRESCALER + 1)
        q == IF p.hi > CLK_FREQ \div U16 THEN 0
             ELSE CLK_FREQ \div (IF p.hi = 0 /\ p.lo = 0 THEN 1 ELSE p.hi * U16 + p.lo)
    IN  IF p.ovf /\ checks THEN Panicked
        ELSE IF p.hi = 0 /\ p.lo = 0 THEN Panicked
        ELSE IF q - 1 < 0 /\ checks THEN Panicked
        ELSE Val((q - 1) % U16)

\* ccr_from_duty: duty is cast to u16 and the product is a u16.
ccr_from_duty(duty, aar, checks) ==
    LET prod == (duty % U16) * aar
    IN  IF Overflows(prod, checks) THEN Panicked ELSE Val((prod % U16) \div 100)

(***************************************************************************)
(* Conversions: the calls                                                  *)
(***************************************************************************)
\* Factory calibration values: two temperature points with ts_cal1 < ts_cal2
\* and the reference voltage sample.
FactorySamples ==
    {[ts_cal1 |-> a, ts_cal2 |-> a + d, vrefint_cal |-> v] :
        a \in {1, MaxRaw - MaxGap},
        d \in {1, 3, TS_CAL2_TEMP - TS_CAL1_TEMP, MaxGap},
        v \in {1, MaxRaw}}

\* Raw samples of the reference voltage channel.
VrefSamples == {1, 7, MaxRaw}

\* Buzzer frequencies (Hz), duty cycles (%) and auto-reload values.
FreqSamples == {1, 2, 440, 1000, U16, U16 + 1}
DutySamples == {0, 50, 100}
ArrSamples == {0, 655, 656, U16 - 1}

Call(fn, args, out) == [fn |-> fn, args |-> args, out |-> out]

NoCall == Call("none", <<>>, Val(0))

\* The raw temperature samples: the calibration points, the samples next to
\* the first one on either side, and the lowest sample.
TsenseSamples(f) == {0, f.ts_cal1 - 1, f.ts_cal1, f.ts_cal1 + 1, f.ts_cal2}

\* adc.measure().temperature()
CalcTemperature ==
    /\ \E tsense \in TsenseSamples(factory) :
          conv' = Call("AdcMeasurement::temperature", <<tsense>>,
                       Temperature(tsense, factory, overflow_checks))
    /\ UNCHANGED <<appVars, halVars, stepVars, factory, overflow_checks>>

\* adc.measure().voltage()
CalcVoltage ==
    /\ \E vrefint \in VrefSamples :
          conv' = Call("AdcMeasurement::voltage", <<vrefint>>,
                       Voltage(vrefint, factory))
    /\ UNCHANGED <<appVars, halVars, stepVars, factory, overflow_checks>>

\* Temperature::from(raw)
CalcTemperatureFrom ==
    /\ \E raw \in TsenseSamples(factory) :
          conv' = Call("Temperature::from", <<raw>>,
                       TemperatureFrom(raw, factory, overflow_checks))
    /\ UNCHANGED <<appVars, halVars, stepVars, factory, overflow_checks>>

\* Voltage::from(raw)
CalcVoltageFrom ==
    /\ \E raw \in VrefSamples :
          conv' = Call("Voltage::from", <<raw>>,
                       VoltageFrom(raw, factory, overflow_checks))
    /\ UNCHANGED <<appVars, halVars, stepVars, factory, overflow_checks>>

\* arr_from_frequency(freq)
CalcArr ==
    /\ \E freq \in FreqSamples :
          conv' = Call("arr_from_frequency", <<freq>>,
                       arr_from_frequency(freq, overflow_checks))
    /\ UNCHANGED <<appVars, halVars, stepVars, factory, overflow_checks>>

\* ccr_from_duty(duty, aar)
CalcCcr ==
    /\ \E duty \in DutySamples, aar \in ArrSamples :
          conv' = Call("ccr_from_duty", <<duty, aar>>,
                       ccr_from_duty(duty, aar, overflow_checks))
    /\ UNCHANGED <<appVars, halVars, stepVars, factory, overflow_checks>>

\* Any device, either build, nothing computed yet.
CalcInit ==
    /\ factory \in FactorySamples
    /\ overflow_checks \in BOOLEAN
    /\ conv = NoCall

\* One device and the release build, for the specifications that compute
\* nothing.
CalcIdle ==
    /\ factory = [ts_cal1 |-> 1, ts_cal2 |-> 1 + MaxGap, vrefint_cal |-> MaxRaw]
    /\ overflow_checks = FALSE
    /\ conv = NoCall

(***************************************************************************)
(* Application: measure                                                    *)
(***************************************************************************)
\* The raw samples adc.read() may deliver for the reference voltage channel.
VrefReadSamples == {0} \cup VrefSamples

\* What a call of stm32l0xx_hal returns to .unwrap(): the crate is not part
\* of the repository, so either variant of its Result.
HalResults == {"Ok", "Err"}

\* A caller of the generated measure::spawn(); the application has none.
MeasureSpawn ==
    /\ ~halted
    /\ m_pc = "free"
    /\ meas_seq < MaxCycles
    /\ m_pc' = "spawned"
    /\ meas_seq' = meas_seq + 1
    /\ UNCHANGED <<calcVars, stepVars, used_by, vtemp_on, vref_on, stack, idle_pc, halted, buzzer_enabled, edge_in_delay,
                   locked, temperature, voltage, irqVars, wVars, aVars, bVars, halVars>>

MeasureStart ==
    /\ CanTake("measure")
    /\ Push("measure")
    /\ m_pc' = "refs"
    /\ UNCHANGED <<calcVars, stepVars, used_by, halted, buzzer_enabled, edge_in_delay, locked, temperature,
                   voltage, meas_seq, vtemp_on, vref_on, irqVars, wVars, aVars, bVars, halVars>>

\* vtemp.enable(adc); vref.enable(adc)
MeasureRefs ==
    /\ Running("measure")
    /\ m_pc = "refs"
    /\ m_pc' = "calibrate"
    /\ vtemp_on' = TRUE
    /\ vref_on' = TRUE
    /\ used_by' = Use("measure", "adc")
    /\ UNCHANGED <<calcVars, stepVars, stack, idle_pc, halted, buzzer_enabled, edge_in_delay, locked,
                   temperature, voltage, meas_seq, irqVars, wVars, aVars, bVars, halVars>>

\* C20 mutant: measure calibrates with the driver of src/hal, whose calibrate
\* stores the factor through the RTC handle.
MeasureCalibrateWithRtc ==
    /\ Running("measure")
    /\ m_pc = "calibrate"
    /\ \E r \in HalResults :
          IF r = "Ok"
            THEN /\ locked' = TRUE
                 /\ m_pc' = "read_temp"
                 /\ halted' = FALSE
            ELSE /\ halted' = TRUE
                 /\ UNCHANGED <<locked, m_pc>>
    /\ used_by' = [used_by EXCEPT !["adc"] = @ \cup {"measure"},
                                  !["rtc"] = @ \cup {"measure"}]
    /\ UNCHANGED <<calcVars, stepVars, stack, idle_pc, buzzer_enabled, edge_in_delay,
                   temperature, voltage, meas_seq, vtemp_on, vref_on, irqVars, wVars, aVars, bVars, halVars>>

\* adc.calibrate().unwrap(): an Err panics.  After an Ok,
\* (temperature, voltage).lock(..) is entered.
MeasureCalibrate ==
    /\ Running("measure")
    /\ m_pc = "calibrate"
    /\ \E r \in HalResults :
          IF r = "Ok"
            THEN /\ locked' = TRUE
                 /\ m_pc' = "read_temp"
                 /\ halted' = FALSE
            ELSE /\ halted' = TRUE
                 /\ UNCHANGED <<locked, m_pc>>
    /\ used_by' = Use("measure", "adc")
    /\ UNCHANGED <<calcVars, stepVars, stack, idle_pc, buzzer_enabled, edge_in_delay,
                   temperature, voltage, meas_seq, vtemp_on, vref_on, irqVars, wVars, aVars, bVars, halVars>>

\* *temp = adc.read(&mut vtemp).unwrap(): the sample is converted by
\* Temperature::from.  A panic of the conversion, or of unwrap on an Err,
\* halts inside the lock with nothing written.
MeasureTemp ==
    /\ Running("measure")
    /\ m_pc = "read_temp"
    /\ \E r \in HalResults, raw \in TsenseSamples(factory) :
          LET t == IF r = "Ok" THEN TemperatureFrom(raw, factory, overflow_checks)
                               ELSE Panicked
          IN  IF t.panic
                THEN /\ halted' = TRUE
                     /\ UNCHANGED <<temperature, m_pc>>
                ELSE /\ halted' = FALSE
                     /\ temperature' = Reading(meas_seq, t.lo)
                     /\ m_pc' = "read_volt"
    /\ used_by' = Use("measure", "adc")
    /\ UNCHANGED <<calcVars, stepVars, stack, idle_pc, buzzer_enabled, edge_in_delay, locked,
                   voltage, meas_seq, vtemp_on, vref_on, irqVars, wVars, aVars, bVars, halVars>>

\* *volt = adc.read(&mut vref).unwrap(): the sample is converted by
\* Voltage::from; a panic halts inside the lock with the new temperature
\* written and the voltage not.  Otherwise the values are logged, the lock is
\* released and the task returns.
MeasureVolt ==
    /\ Running("measure")
    /\ m_pc = "read_volt"
    /\ \E r \in HalResults, raw \in VrefReadSamples :
          LET v == IF r = "Ok" THEN VoltageFrom(raw, factory, overflow_checks)
                               ELSE Panicked
          IN  IF v.panic
                THEN /\ halted' = TRUE
                     /\ UNCHANGED <<voltage, locked, m_pc, stack>>
                ELSE /\ halted' = FALSE
                     /\ voltage' = Reading(meas_seq, v.lo)
                     /\ locked' = FALSE
                     /\ m_pc' = "free"
                     /\ Pop
    /\ used_by' = Use("measure", "adc")
    /\ UNCHANGED <<calcVars, stepVars, idle_pc, buzzer_enabled, edge_in_delay, temperature,
                   meas_seq, vtemp_on, vref_on, irqVars, wVars, aVars, bVars, halVars>>

(***************************************************************************)
(* Specifications                                                          *)
(***************************************************************************)
Init == AppInit /\ HalInit /\ AdcStepInit /\ bkp0 = 0 /\ CalcIdle

Next ==
    \/ RtcTick \/ ButtonEdge \/ TimerExpire
    \/ IdleEnter \/ IdleResume
    \/ WakeupStart \/ WakeupWait \/ WakeupNow \/ WakeupCond \/ WakeupRet
    \/ AlarmStart \/ AlarmUnpend \/ AlarmLoad \/ AlarmStore
    \/ BeepStart \/ BeepEnable \/ BeepResume \/ BeepDisable

Spec == Init /\ [][Next]_vars

\* The processor executes whenever it has something to execute, the RTC keeps
\* ticking, and the SysTick timer reaches every instant waited for.
FairSpec ==
    /\ Init /\ [][Next]_vars
    /\ WF_vars(CpuStep)
    /\ WF_vars(RtcTick)
    /\ WF_vars(TimerExpire)

NextM ==
    \/ RtcTick \/ ButtonEdge \/ TimerExpire
    \/ IdleEnter \/ IdleResume
    \/ WakeupStart \/ WakeupWait \/ WakeupNow \/ WakeupCond \/ WakeupRet
    \/ AlarmStart \/ AlarmUnpend \/ AlarmLoad \/ AlarmStore
    \/ BeepStart \/ BeepEnable \/ BeepResume \/ BeepDisable
    \/ MeasureSpawn \/ MeasureStart \/ MeasureRefs \/ MeasureCalibrate
    \/ MeasureTemp \/ MeasureVolt

\* The device of CalcIdle built with or without overflow checks.
InitM ==
    /\ AppInit /\ HalInit /\ AdcStepInit /\ bkp0 = 0
    /\ factory = [ts_cal1 |-> 1, ts_cal2 |-> 1 + MaxGap, vrefint_cal |-> MaxRaw]
    /\ overflow_checks \in BOOLEAN
    /\ conv = NoCall

SpecM == InitM /\ [][NextM]_vars

\* The driver calls of the three drivers in any order, with the answers of
\* the hardware that the calls wait for, and Stop mode.
HalNext ==
    \/ AdcEnableStart \/ AdcReady \/ AdcEnableReturn \/ AdcDisable \/ AdcPoweredDown
    \/ AdcCalStart \/ AdcCalSeen \/ AdcCalStore \/ AdcCalReturn
    \/ AdcCalComplete \/ AdcCalFinish
    \/ AdcMeasApply \/ AdcMeasStart \/ AdcMeasRead1 \/ AdcMeasRead2 \/ AdcMeasReturn
    \/ AdcConvert
    \/ RtcInitStart \/ RtcInitfSet \/ RtcInitReturn
    \/ RtcRunStart \/ RtcInitfClear \/ RtcRunReturn
    \/ RtcSetTime \/ RtcTime \/ RtcIsrWakeup \/ RtcSetAdcCalibration
    \/ HalStopCycle
    \/ BuzzerStart \/ BuzzerStop

\* When the drivers are configured the backup register holds its reset value
\* or a factor that calibrate stored before the reset.
InitHal == AppInit /\ HalInit /\ AdcStepInit /\ CalcIdle

SpecHal == InitHal /\ [][HalNext]_vars

\* The RTC driver, the calendar and the wakeup timer.
RtcNext ==
    \/ RtcInitStart \/ RtcInitfSet \/ RtcInitReturn
    \/ RtcRunStart \/ RtcInitfClear \/ RtcRunReturn
    \/ RtcSetTime \/ RtcTime \/ RtcIsrWakeup \/ RtcSetAdcCalibration
    \/ HalSecond \/ HalWakeupElapsed \/ HalStopCycle

SpecRtc == InitHal /\ [][RtcNext]_vars

\* The ADC calls register access by register access, the ADC hardware, and
\* interrupt requests.
AdcNext ==
    \/ AdcEnableStart \/ AdcReady \/ AdcEnableReturn \/ AdcDisable \/ AdcPoweredDown
    \/ AdcMeasApply \/ AdcMeasStart \/ AdcMeasRead1 \/ AdcMeasRead2 \/ AdcMeasReturn
    \/ AdcConvert
    \/ AdcCalStart \/ AdcCalSeen \/ AdcCalStore \/ AdcCalReturn
    \/ AdcCalComplete \/ AdcCalFinish
    \/ IrqRaise \/ IrqHandler

SpecAdc == InitHal /\ [][AdcNext]_vars

\* A call in progress continues, and a calibration that has completed clears
\* ADCAL.  Nothing obliges the hardware to complete a calibration.
FairSpecAdc ==
    /\ InitHal /\ [][AdcNext]_vars
    /\ WF_vars(AdcCalSeen \/ AdcCalStore \/ AdcCalReturn)
    /\ WF_vars(AdcCalFinish)

\* The buzzer driver: its transitions and its two setters.
BuzNext == BuzzerStart \/ BuzzerStop \/ BuzzerArr \/ BuzzerCcr

SpecBuz == InitHal /\ [][BuzNext]_vars

CalcNext ==
    \/ CalcTemperature \/ CalcVoltage \/ CalcTemperatureFrom \/ CalcVoltageFrom
    \/ CalcArr \/ CalcCcr

InitCalc == AppInit /\ HalInit /\ AdcStepInit /\ bkp0 = 0 /\ CalcInit

\* The conversions and register formulas, applied to sampled arguments.
SpecCalc == InitCalc /\ [][CalcNext]_vars

(***************************************************************************)
(* Claims                                                                  *)
(***************************************************************************)

\* C1 (SpecHal): every driver operation is invoked in a state it is legal for:
\* measure on an enabled ADC, calibrate and enable on a disabled one, set_time
\* in Init, the time read and the wakeup-flag check in Run, start from Stopped
\* and stop from Running; and the only usable handle of a driver is the one its
\* last transition returned.
C1_LegalOps ==
    /\ adc_handles \subseteq {adc_state}
    /\ rtc_handles \subseteq {rtc_state}
    /\ buz_handles \subseteq {buz_state}
    /\ Idle => (adc_handles = {adc_state} /\ rtc_handles = {rtc_state}
                /\ buz_handles = {buz_state})
    /\ last_op.op = "adc.measure" => last_op.cur = "Enabled"
    /\ last_op.op \in {"adc.calibrate", "adc.enable"} => last_op.cur = "Disabled"
    /\ last_op.op = "rtc.set_time" => last_op.cur = "Init"
    /\ last_op.op \in {"rtc.time", "rtc.isr_wakeup"} => last_op.cur = "Run"
    /\ last_op.op = "buzzer.start" => last_op.cur = "Stopped"
    /\ last_op.op = "buzzer.stop" => last_op.cur = "Running"

\* Every driver has made a transition and holds its handle, a measurement was
\* taken and the time has been set.
C1_Witness ==
    /\ last_op.op = "rtc.set_time"
    /\ "Enabled" \in adc_handles /\ dr.ch = 18
    /\ "Running" \in buz_handles

\* C2 (SpecAdc): when a conversion sequence is started, the calibration
\* register of the ADC holds the value the backup register holds.
C2_CalibrationApplied == conv_started => cal_at_start = bkp_at_start

\* A measurement that met a calibration register differing from the stored
\* factor (lost over a disable/enable cycle, or never loaded) has read its
\* two samples.
C2_Witness ==
    /\ adc_pc = "m_wait"
    /\ conv_started
    /\ bkp_at_start # 0
    /\ cal_on_entry # bkp_at_start
    /\ cal_at_start = bkp_at_start

\* C3 (Spec): never more than one beep instance is pending or active; a request
\* made while one exists fails, changes neither that instance nor the buzzer,
\* and is logged when the handler returns, which it does without a new request.
C3_SingleBeep ==
    [][ /\ beep_n' <= 1
        /\ (w_pc = "cond" /\ w_pc' = "ret" /\ w_res' # "none" /\ beep_n >= 1)
              => /\ w_res' = "err"
                 /\ beep_n' = beep_n
                 /\ beep_pc' = beep_pc
                 /\ buzzer_on' = buzzer_on
        /\ (w_pc = "ret" /\ w_pc' = "off")
              => /\ err_logged' = (w_res = "err")
                 /\ beep_n' = beep_n
                 /\ beep_pc' = beep_pc
      ]_vars

\* A request failed and was logged while the earlier instance sounds the buzzer.
C3_Witness == err_logged /\ beep_n = 1 /\ beep_pc = "delay" /\ buzzer_on

\* C4 (Spec): a wakeup run calls beep::spawn() exactly when buzzer_enabled is
\* set and the time it read has minute 0 and second 0; otherwise the beep slot
\* is left alone; no step taken during the run changes buzzer_enabled.
C4_RequestIff ==
    [][ /\ (w_pc = "cond" /\ w_pc' = "ret")
              => /\ (w_res' # "none")
                      <=> (buzzer_enabled /\ Minute(w_time) = 0 /\ Second(w_time) = 0)
                 /\ (w_res' = "none") => (beep_n' = beep_n /\ beep_pc' = beep_pc)
        /\ (w_pc # "off") => (buzzer_enabled' = buzzer_enabled)
      ]_vars

\* A run that read 01:00:00 with the flag set and spawned beep.
C4_Witness ==
    /\ w_pc = "ret" /\ w_res = "ok"
    /\ Hour(w_time) = 1 /\ Minute(w_time) = 0 /\ Second(w_time) = 0

\* C5 (Spec), as claimed: while the body of beep executes, a pending RTC or
\* button interrupt keeps beep from advancing; while alarm_btn executes, a
\* pending RTC interrupt keeps alarm_btn from advancing.
C5_Orig ==
    [][ /\ (Top = "beep" /\ (rtc_irq \/ btn_irq)) => beep_pc' = beep_pc
        /\ (Top = "alarm_btn" /\ rtc_irq) => a_pc' = a_pc
      ]_vars

\* C6 (Spec), as claimed: beep does not resume while a button edge that arrived
\* during its delay is unhandled.
C6_Orig ==
    [][ edge_in_delay => ~(beep_pc = "woken" /\ beep_pc' = "disable") ]_vars

\* C7 (Spec), as claimed: idle never stays awake in a busy loop.
C7_Orig == idle_pc # "loop"

\* C8 (FairSpec), as claimed: the calibration step of measure is reached again
\* and again. The runs that end in a panic are granted to the claim.
C8_Orig == []<>(m_pc = "calibrate" \/ halted)

\* C9 (FairSpec), as claimed: whenever beep has enabled the buzzer, the buzzer
\* is disabled later.
C9_Orig == buzzer_on ~> ~buzzer_on

\* C10 (SpecM): whenever a context other than measure runs, temperature and
\* voltage come from the same measurement cycle.
C10_NoPartialUpdate == (Top # "measure") => (temperature.cycle = voltage.cycle)

\* measure is between its two writes while both interrupts are pending.
C10_Witness ==
    /\ m_pc = "read_volt" /\ temperature.cycle # voltage.cycle
    /\ rtc_irq /\ btn_irq

\* C11 (Spec): buzzer_enabled is true after an even number of serviced
\* alarm-button interrupts and false after an odd number; alarm_btn and wakeup
\* are never both in progress, and the value alarm_btn loaded is still the
\* value of the flag when it stores the complement.
C11_NoLostToggle ==
    /\ buzzer_enabled = (serviced % 2 = 0)
    /\ ~(a_pc # "off" /\ w_pc # "off")
    /\ a_pc = "store" => a_tmp = buzzer_enabled

\* Two button interrupts were serviced and wakeup is about to read the flag
\* while beep is suspended at its delay.
C11_Witness == serviced = 2 /\ buzzer_enabled /\ w_pc = "cond" /\ beep_pc = "delay"

\* C12 (SpecHal), as claimed: the hardware is in the state the tag of the
\* handle returned last names: the ADC powered exactly when the handle is
\* Enabled, the RTC in initialisation mode exactly when it is Init, the timer
\* counting exactly when it is Running.
C12_Orig ==
    /\ ("Enabled" \in adc_handles) => aden
    /\ ("Disabled" \in adc_handles) => ~aden
    /\ ("Init" \in rtc_handles) => rtc_initf
    /\ ("Run" \in rtc_handles) => ~rtc_initf
    /\ ("Running" \in buz_handles) => cen
    /\ ("Stopped" \in buz_handles) => ~cen

\* C13 (SpecRtc): Rtc::time reads the time register twice, reads it a third
\* time exactly when the seconds of the first two reads differ, and returns
\* the six digits of the last read it made.
C13_ReadTr ==
    last_op.op = "rtc.time" =>
        LET rd == last_op.reads
            r == rd[Len(rd)]
        IN  /\ Len(rd) \in {2, 3}
            /\ (Len(rd) = 3) <=> (Su(rd[1]) # Su(rd[2]))
            /\ last_op.time = Time(Ht(r), Hu(r), Mnt(r), Mnu(r), St(r), Su(r))

\* The hour rolled over between the first two reads and a further second was
\* counted before the third read, which was returned.
C13_Witness ==
    /\ last_op.op = "rtc.time"
    /\ Len(last_op.reads) = 3
    /\ last_op.reads[1] = Tr(0, 59, 59)
    /\ last_op.reads[2] = Tr(1, 0, 0)
    /\ last_op.reads[3] = Tr(1, 0, 1)
    /\ last_op.time = Time(0, 1, 0, 0, 0, 1)

\* C14 (SpecHal): in every state, get_adc_calibration returns the factor given
\* to the last set_adc_calibration: in Run and in Init, and after a Stop mode
\* cycle, an ADC disable/enable cycle or an RTC transition.
C14_RoundTrip == GetAdcCalibration(bkp0) = stored

\* The highest factor was stored; the RTC has entered initialisation mode,
\* the ADC has been enabled, it holds no factor of its own and the processor
\* went through Stop mode.
C14_Witness ==
    /\ stored = U8 - 1
    /\ last_op.op = "system.stop"
    /\ "Init" \in rtc_handles
    /\ "Enabled" \in adc_handles /\ aden
    /\ calfact = 0

\* C15 (SpecCalc), as claimed: the temperature conversion of the raw sample
\* equal to the first calibration point is 30.
C15_Orig ==
    (/\ conv.fn \in {"AdcMeasurement::temperature", "Temperature::from"}
     /\ conv.args[1] = factory.ts_cal1)
        => conv.out = Val(30)

\* C16 (SpecCalc), as claimed: the temperature conversion of the raw sample
\* equal to the second calibration point is 130.
C16_Orig ==
    (/\ conv.fn \in {"AdcMeasurement::temperature", "Temperature::from"}
     /\ conv.args[1] = factory.ts_cal2)
        => conv.out = Val(130)

\* C17 (SpecCalc), as claimed: the voltage conversion of a raw sample above 0
\* is floor(3000 * VREF_CAL / raw).
C17_Orig ==
    (/\ conv.fn \in {"AdcMeasurement::voltage", "Voltage::from"}
     /\ conv.args[1] > 0)
        => conv.out = Val((3000 * factory.vrefint_cal) \div conv.args[1])

\* C18 (SpecCalc), as claimed: ccr_from_duty returns floor(duty * arr / 100)
\* for a duty of 0..100 and any 16-bit auto-reload value.
C18_Orig ==
    (conv.fn = "ccr_from_duty" /\ conv.args[1] \in 0..100)
        => conv.out = Val((conv.args[1] * conv.args[2]) \div 100)

\* C19 (SpecCalc), as claimed: for a frequency of 1 Hz or more,
\* arr_from_frequency returns clock / (freq * (prescaler + 1)) - 1, which is
\* not negative.
C19_Orig ==
    (conv.fn = "arr_from_frequency" /\ conv.args[1] >= 1)
        => LET e == IF conv.args[1] > CLK_FREQ \div (PRESCALER + 1) THEN 0 - 1
                    ELSE (CLK_FREQ \div (conv.args[1] * (PRESCALER + 1))) - 1
           IN  e >= 0 /\ conv.out = Val(e)

\* C20 (SpecM): of the handles the statements executed so far have operated
\* on, the buzzer was used by beep only, the RTC by wakeup only and the ADC by
\* measure only; every task used only handles of its own local list, which no
\* other task has; and no two tasks in progress have used the same handle.
C20_OneUser ==
    /\ used_by["buzzer"] \subseteq {"beep"}
    /\ used_by["rtc"] \subseteq {"wakeup"}
    /\ used_by["adc"] \subseteq {"measure"}
    /\ \A p \in Peripherals : \A t \in used_by[p] :
          /\ p \in Local(t)
          /\ \A u \in Tasks \ {t} : p \notin Local(u)
    /\ \A p \in Peripherals :
          Cardinality({t \in Tasks : InProgress(t) /\ t \in used_by[p]}) <= 1

\* Every handle has been used; measure, in the middle of its readings, has
\* preempted wakeup between two operations on the RTC while beep is suspended
\* with the buzzer on.
C20_Witness ==
    /\ used_by = [p \in Peripherals |->
                    CASE p = "buzzer" -> {"beep"}
                      [] p = "rtc" -> {"wakeup"}
                      [] p = "adc" -> {"measure"}]
    /\ Top = "measure" /\ m_pc = "read_volt"
    /\ w_pc = "now"
    /\ beep_pc = "delay" /\ buzzer_on

\* C21 (SpecAdc): in Adc::measure the conversion start and both data reads lie
\* in one interrupt-masked section: interrupts are masked from the start to the
\* second read, no handler runs and no second start is made in between, and the
\* call returns the sample read first (channel 17) as vrefint and the sample
\* read second (channel 18) as tsense.
C21_MaskedSequence ==
    /\ adc_pc \in {"m_read1", "m_read2"} => primask
    /\ ~irq_in_seq
    /\ starts <= 1
    /\ (adc_pc = "idle" /\ last_op.op = "adc.measure") =>
          /\ Len(last_op.reads) = 2
          /\ last_op.reads[1].ch = 17 /\ last_op.meas.vrefint = last_op.reads[1].val
          /\ last_op.reads[2].ch = 18 /\ last_op.meas.tsense = last_op.reads[2].val

\* C21 witness: a measure has returned two different samples, and an interrupt
\* raised while they were read is still pending.
C21_Witness ==
    /\ adc_pc = "idle" /\ last_op.op = "adc.measure"
    /\ last_op.meas.vrefint # last_op.meas.tsense
    /\ irq

\* C22, as claimed, for a run in which measure is spawned (SpecM; the
\* application itself never spawns it): while measure is not running a cycle, that is,
\* before it is spawned, while it waits to run and after it has returned, the
\* temperature reference is disabled.
C22_Orig == (m_pc \in {"free", "spawned"}) => ~vtemp_on

\* C23 (SpecAdc): Adc::calibrate stores the factor only after the hardware has
\* completed this calibration and the call has seen EOCAL, and returns only
\* with ADCAL clear: when it has returned, the stored factor is the one this
\* run produced, and ADCAL is set only while a calibrate call is in progress,
\* so that no enable or measure starts during a calibration.
C23_CalibrateOrder ==
    /\ adc_pc \in {"c_store", "c_adcal"} => cal_new
    /\ (adc_pc = "idle" /\ last_op.op = "adc.calibrate") =>
          /\ cal_new
          /\ stored = calfact
          /\ GetAdcCalibration(bkp0) = calfact
    /\ adcal => adc_pc \in {"c_eocal", "c_store", "c_adcal"}

\* C23 witness: calibrate has returned with a new factor, after an earlier
\* measurement.
C23_Witness ==
    /\ adc_pc = "idle" /\ last_op.op = "adc.calibrate"
    /\ dr.ch = 18
    /\ stored = MaxCal

\* C24 (FairSpecAdc): the wait for EOCAL has no timeout: calibrate leaves it
\* only with the flag set and stores nothing while it waits, so if the flag is
\* never set the call never returns and the stored factor stays as it was;
\* once the flag is set, calibrate returns.
C24_NoTimeout ==
    /\ [][ (adc_pc = "c_eocal" /\ adc_pc' # "c_eocal") => eocal ]_vars
    /\ [][ adc_pc = "c_eocal" => (bkp0' = bkp0 /\ stored' = stored) ]_vars
    /\ ((adc_pc = "c_eocal" /\ eocal) ~> (adc_pc = "idle"))

\* C24 witness: calibrate waits for a flag that is not set, after an earlier
\* calibrate has stored a factor and returned.
C24_Witness ==
    /\ adc_pc = "c_eocal" /\ ~eocal
    /\ last_op.op = "adc.calibrate"
    /\ stored = MaxCal

\* C25 (Spec): wakeup gets past its first statement only in a step that finds
\* the wakeup flag set and clears it, and reads the time only after that; the
\* processor halts only when wakeup finds the flag clear, and that step reads
\* no time, requests no beep and leaves buzzer_enabled alone, as does every
\* later step, since a halted processor takes none.
C25_ClearThenRead ==
    [][ /\ (w_pc = "wait" /\ w_pc' # "wait") => (w_pc' = "now" /\ wutf /\ ~wutf')
        /\ (w_time' # w_time) => w_pc = "now"
        /\ (~halted /\ halted') =>
              /\ Running("wakeup") /\ w_pc = "wait" /\ ~wutf
              /\ w_pc' = "wait"
              /\ w_time' = w_time
              /\ beep_n' = beep_n /\ beep_pc' = beep_pc
              /\ buzzer_enabled' = buzzer_enabled
        /\ ~halted
      ]_vars

\* C25 witness: wakeup has run with the wakeup flag clear and the processor
\* has halted at the handler's first statement.
C25_Witness == halted /\ w_pc = "wait" /\ ~wutf /\ Top = "wakeup"

\* C26 (SpecBuz), as claimed: after ccr has been called, the compare register
\* holds the value it was given.
C26_Orig == (last_op.op = "buzzer.ccr") => (tim_ccr = buz_arg)

\* C27 (Spec): the buzzer is enabled only while a beep instance is between its
\* enable step and its disable step; while no instance exists, as at boot and
\* after every completed beep, or while one has not yet reached its enable
\* step, the buzzer is disabled.
C27_OnlyWhileBeeping ==
    /\ buzzer_on => (beep_n = 1 /\ beep_pc \in {"delay", "woken", "disable"})
    /\ beep_pc \in {"free", "spawned", "enable"} => ~buzzer_on

\* C27 witness: a beep has run to its end, no instance exists and the buzzer
\* is disabled.
C27_Witness == beeped /\ beep_pc = "free" /\ beep_n = 0 /\ ~buzzer_on

\* C28 (Spec): a beep instance that completes releases the slot with the buzzer
\* disabled; a request fails only while an instance is pending or active, and
\* a top-of-hour request made with the flag set and the slot free succeeds.
C28_SlotReleased ==
    [][ /\ (beep_pc = "disable" /\ beep_pc' # "disable")
              => (beep_pc' = "free" /\ beep_n' = 0 /\ ~buzzer_on')
        /\ (w_pc = "cond" /\ w_pc' = "ret" /\ w_res' = "err")
              => (beep_n >= 1 /\ beep_pc # "free")
        /\ (w_pc = "cond" /\ w_pc' = "ret" /\ TopOfHour(buzzer_enabled, w_time)
              /\ beep_pc = "free")
              => (w_res' = "ok" /\ beep_pc' = "spawned" /\ beep_n' = 1)
      ]_vars

\* C28 witness: after a beep has run to its end, a later request has succeeded
\* and its instance sounds the buzzer.
C28_Witness == beeped /\ w_res = "ok" /\ beep_pc = "delay" /\ buzzer_on

\* C29 (SpecCalc), as claimed: Temperature::from of a raw sample below the
\* first calibration point completes, and its result is not above 30.
C29_Orig ==
    (/\ conv.fn = "Temperature::from"
     /\ conv.args[1] < factory.ts_cal1)
        => (~conv.out.panic /\ conv.out.hi = 0 /\ conv.out.lo <= 30)

\* C30 (SpecRtc): a Time with valid digits given to set_time is returned in all
\* six digits by the next time() made in Run before the calendar counts on,
\* and none of init, set_time, run and time changes the ADC calibration factor
\* kept in the backup register.
C30_SetTimeRoundTrip ==
    [][ /\ (last_op'.op = "rtc.time" /\ time_set'.set) => last_op'.time = time_set'.time
        /\ (last_op'.op \in {"rtc.init", "rtc.set_time", "rtc.run", "rtc.time"})
              => (bkp0' = bkp0 /\ GetAdcCalibration(bkp0') = stored)
      ]_vars

\* C30 witness: 23:59:59 was set, the RTC is back in Run and time() has
\* returned its six digits, with the highest factor still stored.
C30_Witness ==
    /\ last_op.op = "rtc.time" /\ rtc_state = "Run"
    /\ time_set.set /\ time_set.time = Time(2, 3, 5, 9, 5, 9)
    /\ last_op.time = time_set.time
    /\ stored = U8 - 1

====
